---- MODULE Spec2Model ----
(***************************************************************************)
(* A model of the document backend: the user statistics service            *)
(* (users/services/stats.py), the document views (documents/views.py) and  *)
(* the analysis ingestion path (detection/views.py,                        *)
(* detection/serializers.py).                                              *)
(*                                                                         *)
(* The relational store is the variables users, docs, scans and infos.     *)
(* Every request runs in its own slot with its own in-memory copy of the   *)
(* user row, loaded when the request is authenticated.  One action is one  *)
(* database statement together with the local computation around it, so    *)
(* requests interleave between statements, as they do under autocommit.    *)
(* Floats are kept in tenths (confidence 9 is 0.9).                        *)
(***************************************************************************)
EXTENDS Integers, Sequences, FiniteSets, TLC

\* ------------------------------------------------------------------ bounds

\* request slots of the whole system (Spec)
MaxReqs == 2
\* concurrent direct calls of the statistics service (SpecStats)
MaxCalls == 2
\* concurrent document requests (SpecDocs)
MaxDocReqs == 3
\* concurrent POST /analyze requests (SpecIngest)
MaxAnalyses == 2
\* largest count handed to a counter increment
MaxDelta == 2
\* document rows the store can hold
MaxDocs == 4
\* storage failures injected in one behaviour
MaxFaults == 2

Largest(S) == CHOOSE n \in S : \A m \in S : m <= n

\* request slots; each specification uses the first ones
Reqs == 1..Largest({MaxReqs, MaxCalls, MaxDocReqs, MaxAnalyses})

\* ------------------------------------------------------------------ data

Users == {"alice", "bob"}

\* every request of the model is made by this authenticated user
Caller == "alice"

Counters ==
  {"total_documents_saved", "total_documents_processed", "total_documents_shared",
   "total_sensitive_items_detected", "total_non_detected_items"}

NoUser == "nobody"

VARIABLES
  users,    \* User rows: user -> counter -> value
  docs,     \* Document rows: id -> [user, processed]; user = NoUser: no such row
  scans,    \* DocumentScan rows, the id is the index
  infos,    \* SensitiveInformation rows, the id is the index
  req,      \* per slot: the request (kind and data)
  pc,       \* per slot: position in the handler
  loc,      \* per slot: locals of the handler (request.user, scan, ...) and
            \* history (early, marked, flipped)
  faults,   \* storage failures so far
  wrote,    \* history: some statistics-service save has reached the store
  flips     \* history: per document, false->true writes of processed by perform_update

vars == <<users, docs, scans, infos, req, pc, loc, faults, wrote, flips>>

DocIds == 1..MaxDocs

Exists(d) == d \in DocIds /\ docs[d].user # NoUser

\* rows of SensitiveInformation attached to scan s
ItemsOf(s) == {k \in 1..Len(infos) : infos[k].scan = s}

Idle == [kind |-> "idle"]

NoLoc == [user |-> [c \in Counters |-> 0], scan |-> 0, i |-> 0,
          old_processed |-> FALSE, resp |-> 0, raised |-> FALSE, failed_at |-> "",
          marked |-> FALSE, early |-> FALSE, flipped |-> FALSE]

Init ==
  /\ users = [u \in Users |-> [c \in Counters |-> 0]]
  /\ docs = [d \in DocIds |->
               IF d = 1 THEN [user |-> "alice", processed |-> FALSE]
               ELSE IF d = 2 THEN [user |-> "bob", processed |-> FALSE]
               ELSE [user |-> NoUser, processed |-> FALSE]]
  /\ scans = <<>>
  /\ infos = <<>>
  /\ req = [r \in Reqs |-> Idle]
  /\ pc = [r \in Reqs |-> "idle"]
  /\ loc = [r \in Reqs |-> NoLoc]
  /\ faults = 0
  /\ wrote = FALSE
  /\ flips = [d \in DocIds |-> 0]

\* ------------------------------------------------------- storage helpers

\* a storage statement may fail, at most MaxFaults times in a behaviour
CanFail == faults < MaxFaults

\* SaveFields as a save() without update_fields would do it: every column
\* of the in-memory object is written
SaveWholeRow(row, mem, fields) == [c \in Counters |-> mem[c]]

\* user.save(update_fields=fields): writes exactly the named columns of the
\* in-memory object over the stored row
SaveFields(row, mem, fields) ==
  [c \in Counters |-> IF c \in fields THEN mem[c] ELSE row[c]]

\* user.<field> = F(<field>) + n; user.save(update_fields=[field]):
\* UPDATE ... SET field = field + n, evaluated in the store
SaveF(row, field, n) == [row EXCEPT ![field] = @ + n]

\* authentication loads request.user from the store
Loaded == [NoLoc EXCEPT !.user = users[Caller], !.early = ~wrote]

Authenticate(r) == loc' = [loc EXCEPT ![r] = Loaded]

\* Throw as a handler that swallows the exception and reports success would do it
ThrowSwallowed(r, resp) ==
  /\ loc' = [loc EXCEPT ![r].resp = 201, ![r].raised = TRUE, ![r].failed_at = pc[r]]
  /\ pc' = [pc EXCEPT ![r] = "done"]

\* an exception ends the handler with the given response
Throw(r, resp) ==
  /\ loc' = [loc EXCEPT ![r].resp = resp, ![r].raised = TRUE, ![r].failed_at = pc[r]]
  /\ pc' = [pc EXCEPT ![r] = "done"]

\* the storage statement of the step raises
StorageFault(r, resp) ==
  /\ CanFail
  /\ faults' = faults + 1
  /\ Throw(r, resp)

\* slots are taken in order: the slot index is the order of arrival
Free(r, n) ==
  /\ r \in 1..n
  /\ pc[r] = "idle"
  /\ \A q \in 1..(r - 1) : pc[q] # "idle"

\* ------------------------------------------------ UserStatsService (pure)

Returned(user, fields) == [raised |-> FALSE, user |-> user, update_fields |-> fields]
Raised(user) == [raised |-> TRUE, user |-> user, update_fields |-> {}]

increment_documents_saved(user) ==
  Returned([user EXCEPT !["total_documents_saved"] = @ + 1], {"total_documents_saved"})

increment_documents_processed(user) ==
  Returned([user EXCEPT !["total_documents_processed"] = @ + 1],
           {"total_documents_processed"})

increment_documents_shared(user) ==
  Returned([user EXCEPT !["total_documents_shared"] = @ + 1], {"total_documents_shared"})

increment_sensitive_items_detected(user, count) ==
  IF count < 0 THEN Raised(user)
  ELSE Returned([user EXCEPT !["total_sensitive_items_detected"] = @ + count],
                {"total_sensitive_items_detected"})

increment_non_detected_items(user, count) ==
  IF count < 0 THEN Raised(user)
  ELSE Returned([user EXCEPT !["total_non_detected_items"] = @ + count],
                {"total_non_detected_items"})

\* update_stats_after_analysis as it would be with only its first argument tested
update_stats_first_tested(user, sensitive_count, non_sensitive_count) ==
  IF sensitive_count < 0 THEN Raised(user)
  ELSE Returned([user EXCEPT !["total_sensitive_items_detected"] = @ + sensitive_count,
                             !["total_non_detected_items"] = @ + non_sensitive_count],
                {"total_sensitive_items_detected", "total_non_detected_items"})

update_stats_after_analysis(user, sensitive_count, non_sensitive_count) ==
  IF sensitive_count < 0 \/ non_sensitive_count < 0 THEN Raised(user)
  ELSE Returned([user EXCEPT !["total_sensitive_items_detected"] = @ + sensitive_count,
                             !["total_non_detected_items"] = @ + non_sensitive_count],
                {"total_sensitive_items_detected", "total_non_detected_items"})

\* reset_user_stats as it would be with one counter left out of update_fields
reset_all_but_one(user) ==
  Returned([c \in Counters |-> 0], Counters \ {"total_documents_saved"})

reset_user_stats(user) == Returned([c \in Counters |-> 0], Counters)

\* the calls a client of the service can make
Calls ==
  {[op |-> o, count |-> 1, other |-> 0] :
     o \in {"increment_documents_saved", "increment_documents_processed",
            "increment_documents_shared", "reset_user_stats"}}
  \cup {[op |-> o, count |-> n, other |-> 0] :
     o \in {"increment_sensitive_items_detected", "increment_non_detected_items"},
     n \in -1..MaxDelta}
  \cup {[op |-> "update_stats_after_analysis", count |-> n, other |-> m] :
     n \in {-1, 0, MaxDelta}, m \in {-1, 1}}

Dispatch(call, user) ==
  CASE call.op = "increment_documents_saved" -> increment_documents_saved(user)
    [] call.op = "increment_documents_processed" -> increment_documents_processed(user)
    [] call.op = "increment_documents_shared" -> increment_documents_shared(user)
    [] call.op = "increment_sensitive_items_detected" ->
         increment_sensitive_items_detected(user, call.count)
    [] call.op = "increment_non_detected_items" ->
         increment_non_detected_items(user, call.count)
    [] call.op = "update_stats_after_analysis" ->
         update_stats_after_analysis(user, call.count, call.other)
    [] OTHER -> reset_user_stats(user)

\* One call of a service method on slot r's user object: the in-memory
\* change, then the save.  fail: the save raises, the store keeps its row
\* and the exception is re-raised to the caller.
ServiceCall(r, res, fail, okpc, okresp, errresp) ==
  IF res.raised
  THEN /\ loc' = [loc EXCEPT ![r].raised = TRUE, ![r].resp = errresp,
                           ![r].failed_at = pc[r]]
       /\ pc' = [pc EXCEPT ![r] = "done"]
       /\ UNCHANGED <<users, faults, wrote>>
  ELSE IF fail
  THEN /\ CanFail
       /\ faults' = faults + 1
       /\ loc' = [loc EXCEPT ![r].user = res.user, ![r].raised = TRUE, ![r].resp = errresp,
                           ![r].failed_at = pc[r]]
       /\ pc' = [pc EXCEPT ![r] = "done"]
       /\ UNCHANGED <<users, wrote>>
  ELSE /\ users' = [users EXCEPT ![Caller] = SaveFields(@, res.user, res.update_fields)]
       /\ wrote' = TRUE
       /\ loc' = [loc EXCEPT ![r].user = res.user, ![r].resp = okresp]
       /\ pc' = [pc EXCEPT ![r] = okpc]
       /\ UNCHANGED faults

\* ------------------------------------------- direct calls of the service

\* a caller obtains the user object and decides on a call
BeginCall(r, n) ==
  /\ Free(r, n)
  /\ \E call \in Calls : req' = [req EXCEPT ![r] = [kind |-> "call", call |-> call]]
  /\ pc' = [pc EXCEPT ![r] = "call"]
  /\ Authenticate(r)
  /\ UNCHANGED <<users, docs, scans, infos, faults, wrote, flips>>

Call(r) ==
  /\ pc[r] = "call"
  /\ \E fail \in BOOLEAN :
       ServiceCall(r, Dispatch(req[r].call, loc[r].user), fail, "done", 0, 0)
  /\ UNCHANGED <<docs, scans, infos, req, flips>>

\* ------------------------------------------------------- DocumentViewSet

BeginCreate(r, n) ==
  /\ Free(r, n)
  /\ req' = [req EXCEPT ![r] = [kind |-> "create"]]
  /\ pc' = [pc EXCEPT ![r] = "create_save"]
  /\ Authenticate(r)
  /\ UNCHANGED <<users, docs, scans, infos, faults, wrote, flips>>

\* document = serializer.save(user=self.request.user)
CreateSave(r) ==
  /\ pc[r] = "create_save"
  /\ \E d \in DocIds :
       /\ ~Exists(d)
       /\ \A e \in 1..(d - 1) : Exists(e)
       /\ \/ /\ docs' = [docs EXCEPT ![d] = [user |-> Caller, processed |-> FALSE]]
             /\ pc' = [pc EXCEPT ![r] = "create_stats"]
             /\ UNCHANGED <<loc, faults>>
          \/ /\ StorageFault(r, 500)
             /\ UNCHANGED docs
  /\ UNCHANGED <<users, scans, infos, req, wrote, flips>>

\* UserStatsService.increment_documents_saved(self.request.user)
CreateStats(r) ==
  /\ pc[r] = "create_stats"
  /\ \E fail \in BOOLEAN :
       ServiceCall(r, increment_documents_saved(loc[r].user), fail, "done", 201, 500)
  /\ UNCHANGED <<docs, scans, infos, req, flips>>

BeginUpdate(r, n) ==
  /\ Free(r, n)
  /\ \E d \in DocIds, p \in BOOLEAN :
       req' = [req EXCEPT ![r] = [kind |-> "update", pk |-> d, processed |-> p]]
  /\ pc' = [pc EXCEPT ![r] = "update_get"]
  /\ Authenticate(r)
  /\ UNCHANGED <<users, docs, scans, infos, faults, wrote, flips>>

\* the rows get_queryset offers to the caller
InQueryset(d) == Exists(d) /\ docs[d].user = Caller

\* old_processed = self.get_object().processed
UpdateGet(r) ==
  /\ pc[r] = "update_get"
  /\ IF InQueryset(req[r].pk)
     THEN /\ loc' = [loc EXCEPT ![r].old_processed = docs[req[r].pk].processed]
          /\ pc' = [pc EXCEPT ![r] = "update_save"]
     ELSE /\ loc' = [loc EXCEPT ![r].resp = 404]
          /\ pc' = [pc EXCEPT ![r] = "done"]
  /\ UNCHANGED <<users, docs, scans, infos, req, faults, wrote, flips>>

\* the branch perform_update takes after the save
ProcessedBranch(old_processed, processed) ==
  IF ~old_processed /\ processed THEN "update_stats" ELSE "done"

\* document = serializer.save(), then the branch on the transition
UpdateSave(r) ==
  /\ pc[r] = "update_save"
  /\ LET d == req[r].pk
         p == req[r].processed
     IN \/ /\ docs' = [docs EXCEPT ![d].processed = p]
           /\ flips' = [flips EXCEPT ![d] = IF ~docs[d].processed /\ p THEN @ + 1 ELSE @]
           /\ pc' = [pc EXCEPT ![r] = ProcessedBranch(loc[r].old_processed, p)]
           /\ loc' = [loc EXCEPT ![r].resp = 200,
                                  ![r].flipped = ~docs[d].processed /\ p]
           /\ UNCHANGED faults
        \/ /\ StorageFault(r, 500)
           /\ UNCHANGED <<docs, flips>>
  /\ UNCHANGED <<users, scans, infos, req, wrote>>

\* UserStatsService.increment_documents_processed(self.request.user)
UpdateStats(r) ==
  /\ pc[r] = "update_stats"
  /\ \E fail \in BOOLEAN :
       ServiceCall(r, increment_documents_processed(loc[r].user), fail, "done", 200, 500)
  /\ UNCHANGED <<docs, scans, infos, req, flips>>

\* ------------------------------------------------------ analysis payloads

\* dict.get(key, default)
Get(d, key, default) == IF key \in DOMAIN d THEN d[key] ELSE default

\* a dict without the given keys
Without(d, keys) == [k \in DOMAIN d \ keys |-> d[k]]

ItemFull ==
  [type |-> "email", confidence |-> 9, location |-> "box", count |-> 2, redacted |-> TRUE]
ItemBare == [type |-> "ssn", confidence |-> 5]
ItemNoType == [confidence |-> 9, count |-> 2]

\* the item sequences a payload or a detection result carries
ItemSeqs == {<<>>, <<ItemFull>>, <<ItemBare, ItemFull>>, <<ItemNoType>>}

\* sensitive_items_count values of a payload
ItemCounts == {-1, 0, 1, 2, 3}

MLPayloads ==
  LET full == {[document_id |-> d, detection_types |-> <<"email">>,
                sensitive_items_count |-> n, processing_time |-> 5,
                source |-> "ml_model", sensitive_items |-> its] :
                d \in DocIds, n \in ItemCounts, its \in ItemSeqs}
  IN full
     \cup {Without(p, {"sensitive_items"}) : p \in {q \in full : q.sensitive_items = <<>>}}
     \cup {Without(p, {"processing_time"}) :
             p \in {q \in full : q.sensitive_items = <<>> /\ q.sensitive_items_count = 0}}

BackendPayloads ==
  {[document_id |-> d] : d \in DocIds}
  \cup {[document_id |-> d, source |-> "backend", sensitive_items_count |-> 1,
         processing_time |-> 5, detection_types |-> <<"email">>] : d \in DocIds}
  \cup {[source |-> "ml"]}

\* what DetectionService.analyze_document(document_id) may return, with the
\* detected items drawn from seqs
DetectionOutcomes(document_id, levels, seqs) ==
  {[error |-> "analysis failed"]}
  \cup {[document_id |-> document_id, risk_level |-> rl, processing_time |-> 5,
         sensitive_items |-> its] : rl \in levels, its \in seqs}

\* the risk levels a detection result may carry ("critical" is no choice of
\* DetectionResultSerializer)
Levels == {"low", "high", "critical"}

\* the payloads of SpecIngest: an own and a foreign document, the item
\* sequence absent, empty or of two items
CoreItemSeqs == {<<>>, <<ItemBare, ItemFull>>}

CoreLevels == {"low", "critical"}

CoreMLPayloads ==
  {p \in MLPayloads :
     /\ p.sensitive_items_count = 0
     /\ "processing_time" \in DOMAIN p
     /\ \/ p.document_id = 1 /\ "sensitive_items" \in DOMAIN p
           /\ p.sensitive_items \in CoreItemSeqs
        \/ p.document_id = 2 /\ "sensitive_items" \notin DOMAIN p}

CoreBackendPayloads == {[document_id |-> 1], [document_id |-> 2]}

\* SensitiveItemSerializer: type and confidence are required, location is
\* optional, count defaults to 1, undeclared keys are dropped
ItemValid(item) == {"type", "confidence"} \subseteq DOMAIN item

ItemValidated(item) ==
  [k \in (DOMAIN item \cap {"type", "confidence", "location"}) \cup {"count"} |->
     IF k = "count" THEN Get(item, "count", 1) ELSE item[k]]

ItemsValidated(items) == [k \in 1..Len(items) |-> ItemValidated(items[k])]

\* AnalysisViewSet.create: the payload is an ML payload when it carries the marker
IsMLPayload(data) == "source" \in DOMAIN data /\ data.source = "ml_model"

validate_source(value) == value = "ml_model"

\* MLAnalysisPayloadSerializer.is_valid()
MLValid(data) ==
  /\ {"document_id", "detection_types", "sensitive_items_count", "processing_time",
      "source"} \subseteq DOMAIN data
  /\ validate_source(data.source)
  /\ "sensitive_items" \in DOMAIN data =>
       \A k \in 1..Len(data.sensitive_items) : ItemValid(data.sensitive_items[k])

\* serializer.validated_data of a valid ML payload
MLValidated(data) ==
  [k \in DOMAIN data |->
     IF k = "sensitive_items" THEN ItemsValidated(data[k]) ELSE data[k]]

\* AnalyzeDocumentSerializer.is_valid() with validate_document_id
validate_document_id(value) == Exists(value) /\ docs[value].user = Caller

AnalyzeValid(data) ==
  "document_id" \in DOMAIN data /\ validate_document_id(data.document_id)

\* DetectionResultSerializer.is_valid()
ResultValid(results) ==
  /\ {"document_id", "risk_level", "processing_time", "sensitive_items"}
       \subseteq DOMAIN results
  /\ results.risk_level \in {"low", "medium", "high"}
  /\ \A k \in 1..Len(results.sensitive_items) : ItemValid(results.sensitive_items[k])

ResultValidated(results) ==
  [results EXCEPT !.sensitive_items = ItemsValidated(results.sensitive_items)]

\* the risk level create_ml_analysis_result derives from the count
RiskLevel(sensitive_items_count) ==
  IF sensitive_items_count = 0 THEN "low"
  ELSE IF sensitive_items_count <= 2 THEN "medium"
  ELSE "high"

\* --------------------------------------------------------- POST /analyze

\* the sensitive items the ingestion call of slot r is given
InputItems(r) ==
  IF req[r].kind = "ml" THEN Get(MLValidated(req[r].data), "sensitive_items", <<>>)
  ELSE ResultValidated(req[r].results).sensitive_items

\* MoreItems as a loop that stops one item early would compute it
MoreItemsButLast(i, items) == i + 1 < Len(items)

\* the for loop over the items: is there an item left to create
MoreItems(i, items) == i < Len(items)

\* create -> _handle_ml_payload, up to serializer.is_valid()
BeginMLAnalysis(r, n, payloads) ==
  /\ Free(r, n)
  /\ \E data \in payloads :
       /\ IsMLPayload(data)
       /\ req' = [req EXCEPT ![r] = [kind |-> "ml", data |-> data]]
       /\ IF MLValid(data)
          THEN /\ pc' = [pc EXCEPT ![r] = "ml_scan"]
               /\ loc' = [loc EXCEPT ![r] = Loaded]
          ELSE /\ pc' = [pc EXCEPT ![r] = "done"]
               /\ loc' = [loc EXCEPT ![r] = [Loaded EXCEPT !.resp = 400]]
  /\ UNCHANGED <<users, docs, scans, infos, faults, wrote, flips>>

\* create_ml_analysis_result: Document.objects.get, the risk level,
\* DocumentScan.objects.create
MLCreateScan(r) ==
  /\ pc[r] = "ml_scan"
  /\ LET v == MLValidated(req[r].data)
     IN IF ~Exists(v.document_id)
        THEN Throw(r, 400) /\ UNCHANGED <<scans, faults>>
        ELSE \/ /\ scans' = Append(scans,
                     [document |-> v.document_id,
                      risk_level |-> RiskLevel(v.sensitive_items_count),
                      processing_time |-> v.processing_time])
                /\ loc' = [loc EXCEPT ![r].scan = Len(scans) + 1]
                /\ pc' = [pc EXCEPT ![r] =
                            IF MoreItems(0, InputItems(r)) THEN "ml_items" ELSE "ml_flag"]
                /\ UNCHANGED faults
             \/ StorageFault(r, 400) /\ UNCHANGED scans
  /\ UNCHANGED <<users, docs, infos, req, wrote, flips>>

\* the row create_ml_analysis_result writes for one item
MLItemRow(scan, item) ==
  [scan |-> scan, type |-> Get(item, "type", "other"),
   confidence |-> Get(item, "confidence", 0), location |-> Get(item, "location", "None"),
   count |-> Get(item, "count", 1), redacted |-> FALSE]

\* one turn of the loop: SensitiveInformation.objects.create
MLCreateItem(r) ==
  /\ pc[r] = "ml_items"
  /\ \/ /\ infos' = Append(infos, MLItemRow(loc[r].scan, InputItems(r)[loc[r].i + 1]))
        /\ loc' = [loc EXCEPT ![r].i = @ + 1]
        /\ pc' = [pc EXCEPT ![r] =
                    IF MoreItems(loc[r].i + 1, InputItems(r)) THEN "ml_items" ELSE "ml_flag"]
        /\ UNCHANGED faults
     \/ StorageFault(r, 400) /\ UNCHANGED infos
  /\ UNCHANGED <<users, docs, scans, req, wrote, flips>>

\* MLMarkProcessed as a method that returns the scan without the flag write
\* would do it
MLReturnUnmarked(r) ==
  /\ pc[r] = "ml_flag"
  /\ pc' = [pc EXCEPT ![r] = "ml_stats"]
  /\ loc' = [loc EXCEPT ![r].marked = TRUE]
  /\ UNCHANGED <<users, docs, scans, infos, req, faults, wrote, flips>>

\* document.processed = True; document.save()
MLMarkProcessed(r) ==
  /\ pc[r] = "ml_flag"
  /\ \/ /\ docs' = [docs EXCEPT ![scans[loc[r].scan].document].processed = TRUE]
        /\ pc' = [pc EXCEPT ![r] = "ml_stats"]
        /\ loc' = [loc EXCEPT ![r].marked = TRUE]
        /\ UNCHANGED faults
     \/ StorageFault(r, 400) /\ UNCHANGED docs
  /\ UNCHANGED <<users, scans, infos, req, wrote, flips>>

\* the counter _handle_ml_payload updates, and by how much
MLStatsUpdate(sensitive_count) ==
  IF sensitive_count > 0
  THEN [field |-> "total_sensitive_items_detected", by |-> sensitive_count]
  ELSE [field |-> "total_non_detected_items", by |-> 1]

\* _handle_ml_payload after the ingestion: the F() update and the response
MLStats(r) ==
  /\ pc[r] = "ml_stats"
  /\ LET upd == MLStatsUpdate(MLValidated(req[r].data).sensitive_items_count)
     IN \/ /\ users' = [users EXCEPT ![Caller] = SaveF(@, upd.field, upd.by)]
           /\ loc' = [loc EXCEPT ![r].resp = 201]
           /\ pc' = [pc EXCEPT ![r] = "done"]
           /\ UNCHANGED faults
        \/ StorageFault(r, 400) /\ UNCHANGED users
  /\ UNCHANGED <<docs, scans, infos, req, wrote, flips>>

\* create -> _handle_backend_analysis, up to result_serializer.is_valid()
BeginBackendAnalysis(r, n, payloads, levels, seqs) ==
  /\ Free(r, n)
  /\ \E data \in payloads :
       /\ ~IsMLPayload(data)
       /\ IF ~AnalyzeValid(data)
          THEN /\ req' = [req EXCEPT ![r] =
                            [kind |-> "backend", data |-> data, results |-> [none |-> TRUE]]]
               /\ pc' = [pc EXCEPT ![r] = "done"]
               /\ loc' = [loc EXCEPT ![r] = [Loaded EXCEPT !.resp = 400]]
          ELSE \E results \in DetectionOutcomes(data.document_id, levels, seqs) :
                 /\ req' = [req EXCEPT ![r] =
                              [kind |-> "backend", data |-> data, results |-> results]]
                 /\ IF "error" \notin DOMAIN results /\ ResultValid(results)
                    THEN /\ pc' = [pc EXCEPT ![r] = "be_scan"]
                         /\ loc' = [loc EXCEPT ![r] = Loaded]
                    ELSE /\ pc' = [pc EXCEPT ![r] = "done"]
                         /\ loc' = [loc EXCEPT ![r] = [Loaded EXCEPT !.resp = 400]]
  /\ UNCHANGED <<users, docs, scans, infos, faults, wrote, flips>>

\* DetectionResultSerializer.create: Document.objects.get, DocumentScan.objects.create
BackendCreateScan(r) ==
  /\ pc[r] = "be_scan"
  /\ LET v == ResultValidated(req[r].results)
     IN \/ /\ scans' = Append(scans,
                  [document |-> v.document_id, risk_level |-> v.risk_level,
                   processing_time |-> v.processing_time])
           /\ loc' = [loc EXCEPT ![r].scan = Len(scans) + 1]
           /\ pc' = [pc EXCEPT ![r] =
                       IF MoreItems(0, InputItems(r)) THEN "be_items" ELSE "be_flag"]
           /\ UNCHANGED faults
        \/ StorageFault(r, 500) /\ UNCHANGED scans
  /\ UNCHANGED <<users, docs, infos, req, wrote, flips>>

\* the columns of SensitiveInformation an item may leave out
ItemColumnDefaults == [location |-> "None", redacted |-> FALSE]

\* the row DetectionResultSerializer.create writes for one item: scan=scan, **item
BackendItemRow(scan, item) ==
  [scan |-> scan, type |-> item.type, confidence |-> item.confidence,
   location |-> Get(item, "location", ItemColumnDefaults.location),
   count |-> item.count, redacted |-> Get(item, "redacted", ItemColumnDefaults.redacted)]

BackendCreateItem(r) ==
  /\ pc[r] = "be_items"
  /\ \/ /\ infos' = Append(infos, BackendItemRow(loc[r].scan, InputItems(r)[loc[r].i + 1]))
        /\ loc' = [loc EXCEPT ![r].i = @ + 1]
        /\ pc' = [pc EXCEPT ![r] =
                    IF MoreItems(loc[r].i + 1, InputItems(r)) THEN "be_items" ELSE "be_flag"]
        /\ UNCHANGED faults
     \/ StorageFault(r, 500) /\ UNCHANGED infos
  /\ UNCHANGED <<users, docs, scans, req, wrote, flips>>

\* document.processed = True; document.save()
BackendMarkProcessed(r) ==
  /\ pc[r] = "be_flag"
  /\ \/ /\ docs' = [docs EXCEPT ![scans[loc[r].scan].document].processed = TRUE]
        /\ pc' = [pc EXCEPT ![r] = "be_stats"]
        /\ loc' = [loc EXCEPT ![r].marked = TRUE]
        /\ UNCHANGED faults
     \/ StorageFault(r, 500) /\ UNCHANGED docs
  /\ UNCHANGED <<users, scans, infos, req, wrote, flips>>

\* the counter _handle_backend_analysis updates, and by how much
BackendStatsUpdate(sensitive_count) ==
  IF sensitive_count > 0
  THEN [field |-> "total_sensitive_items_detected", by |-> sensitive_count]
  ELSE [field |-> "total_non_detected_items", by |-> 1]

\* _handle_backend_analysis after the ingestion:
\* scan.sensitive_information.count(), the F() update and the response
BackendStats(r) ==
  /\ pc[r] = "be_stats"
  /\ LET upd == BackendStatsUpdate(Cardinality(ItemsOf(loc[r].scan)))
     IN \/ /\ users' = [users EXCEPT ![Caller] = SaveF(@, upd.field, upd.by)]
           /\ loc' = [loc EXCEPT ![r].resp = 201]
           /\ pc' = [pc EXCEPT ![r] = "done"]
           /\ UNCHANGED faults
        \/ StorageFault(r, 500) /\ UNCHANGED users
  /\ UNCHANGED <<docs, scans, infos, req, wrote, flips>>

\* ---------------------------------------------------------------- claims

Begun == {r \in Reqs : pc[r] # "idle"}

IsAnalysis(r) == req[r].kind \in {"ml", "backend"}

StatsPcs == {"ml_stats", "be_stats"}

\* slot r takes the step
Stepped(r) == pc'[r] # pc[r] \/ loc'[r] # loc[r]

\* the item sequence as the caller supplied it
SuppliedItems(r) ==
  IF req[r].kind = "ml" THEN Get(req[r].data, "sensitive_items", <<>>)
  ELSE req[r].results.sensitive_items

\* the counter a direct call increments, and by how much
IncrementOf(call) ==
  CASE call.op = "increment_documents_saved" -> [counter |-> "total_documents_saved", d |-> 1]
    [] call.op = "increment_documents_processed" ->
         [counter |-> "total_documents_processed", d |-> 1]
    [] call.op = "increment_documents_shared" ->
         [counter |-> "total_documents_shared", d |-> 1]
    [] call.op = "increment_sensitive_items_detected" ->
         [counter |-> "total_sensitive_items_detected", d |-> call.count]
    [] call.op = "increment_non_detected_items" ->
         [counter |-> "total_non_detected_items", d |-> call.count]
    [] OTHER -> [counter |-> "", d |-> 0]

\* C1: when N callers, each with its own copy of the user loaded before any
\* of them writes, have each incremented the same counter by d, the stored
\* counter is the initial value (0) plus N*d.  Stated as the claim; the
\* service's read-modify-write on the copy violates it.
C1_NoLostUpdates ==
  \A c \in Counters, d \in 0..MaxDelta :
    (/\ Begun # {}
     /\ \A r \in Begun :
          /\ req[r].kind = "call"
          /\ IncrementOf(req[r].call) = [counter |-> c, d |-> d]
          /\ loc[r].early
          /\ pc[r] = "done"
          /\ ~loc[r].raised)
    => users[Caller][c] = Cardinality(Begun) * d

\* C2: when an ingestion request of either protocol reports 201, its counter
\* update has raised the sensitive-items-detected counter by k, the number
\* of items persisted for its scan, if k > 0, and the non-detected counter
\* by 1 if k = 0, and changed no other counter.  Stated as the claim;
\* Protocol B updates by the payload's sensitive_items_count instead.
C2_CountersFollowPersistedItems ==
  [][\A r \in Reqs :
       (pc[r] \in StatsPcs /\ pc'[r] = "done" /\ loc'[r].resp = 201)
       => LET k == Cardinality(ItemsOf(loc[r].scan))
          IN users' = [users EXCEPT ![Caller] =
                         IF k > 0
                         THEN [@ EXCEPT !["total_sensitive_items_detected"] = @ + k]
                         ELSE [@ EXCEPT !["total_non_detected_items"] = @ + 1]]]_vars

\* C3: the scan a valid Protocol-B payload creates is low iff
\* sensitive_items_count = 0, medium iff 1 <= count <= 2, high iff
\* count >= 3.  Stated as the claim; a negative count is accepted and
\* classified medium.
C3_RiskLevelByCount ==
  \A r \in Reqs :
    (req[r].kind = "ml" /\ loc[r].scan # 0)
    => LET n == req[r].data.sensitive_items_count
           rl == scans[loc[r].scan].risk_level
       IN /\ rl = "low" <=> n = 0
          /\ rl = "medium" <=> (1 <= n /\ n <= 2)
          /\ rl = "high" <=> n >= 3

\* the payload names a document of the requesting user
NamesOwnDocument(data) ==
  /\ "document_id" \in DOMAIN data
  /\ Exists(data.document_id)
  /\ docs[data.document_id].user = Caller

\* C4: a POST /analyze request whose document_id names a document of
\* another user, or no document, changes no row and ends in 400.  Stated as
\* the claim; Protocol B never checks the owner.
C4_ForeignDocumentRejected ==
  [][\A r \in Reqs :
       (/\ Stepped(r)
        /\ req'[r].kind \in {"ml", "backend"}
        /\ ~NamesOwnDocument(req'[r].data))
       => /\ UNCHANGED <<users, docs, scans, infos>>
          /\ pc'[r] = "done" => loc'[r].resp = 400]_vars

\* C5: a POST /analyze request whose source is present and is not the
\* sentinel changes no row and ends in a client error.  Stated as the claim;
\* create() routes such a request to the backend analysis, which ignores
\* the field.
C5_WrongSourceRejected ==
  [][\A r \in Reqs :
       (/\ Stepped(r)
        /\ req'[r].kind \in {"ml", "backend"}
        /\ "source" \in DOMAIN req'[r].data
        /\ req'[r].data.source # "ml_model")
       => /\ UNCHANGED <<users, docs, scans, infos>>
          /\ pc'[r] = "done" => loc'[r].resp = 400]_vars

\* C6: after a storage failure between the creation of the Scan row and the
\* write of the processed flag, the request has not reported success and
\* its scan either has all its input items or does not exist.  Stated as
\* the claim; nothing undoes the rows already written.
C6_NoPartialScan ==
  \A r \in Reqs :
    (pc[r] = "done" /\ loc[r].failed_at \in {"ml_items", "ml_flag", "be_items", "be_flag"})
    => /\ loc[r].resp # 201
       /\ \/ loc[r].scan \notin 1..Len(scans)
          \/ Cardinality(ItemsOf(loc[r].scan)) = Len(SuppliedItems(r))

\* the ingestion call of slot r has returned its scan
IngestionReturned(r) ==
  /\ IsAnalysis(r)
  /\ \/ pc[r] \in StatsPcs
     \/ pc[r] = "done" /\ (loc[r].resp = 201 \/ loc[r].failed_at \in StatsPcs)

\* C7: every ingestion call that returned has created exactly one Scan row,
\* attached to the document named by document_id, and as many
\* SensitiveInformation rows as items were supplied (none when the sequence
\* is absent or empty), each attached to that scan.
C7_OneScanWithAllItems ==
  /\ \A r \in Reqs :
       IngestionReturned(r)
       => LET s == loc[r].scan
          IN /\ s \in 1..Len(scans)
             /\ scans[s].document = req[r].data.document_id
             /\ Cardinality(ItemsOf(s)) = Len(SuppliedItems(r))
             /\ \A q \in Reqs \ {r} : loc[q].scan # s
  /\ Len(scans) = Cardinality({r \in Reqs : loc[r].scan # 0})
  /\ \A k \in 1..Len(infos) : infos[k].scan \in 1..Len(scans)

\* two ingestions have returned, a Protocol-B one that supplied two items and
\* a Protocol-A one whose result had none
C7_Witness ==
  \E r, q \in Reqs :
    /\ IngestionReturned(r) /\ req[r].kind = "ml" /\ Len(SuppliedItems(r)) = 2
    /\ pc[r] = "done" /\ loc[r].resp = 201
    /\ IngestionReturned(q) /\ req[q].kind = "backend" /\ Len(SuppliedItems(q)) = 0
    /\ pc[q] = "done" /\ loc[q].resp = 201

\* the scan of slot r, all its items and the processed flag have been written
Persisted(r) ==
  /\ loc[r].scan \in 1..Len(scans)
  /\ Cardinality(ItemsOf(loc[r].scan)) = Len(SuppliedItems(r))
  /\ loc[r].marked

\* C8: in both protocols a counter is touched by an analysis request only in
\* its statistics step, which it reaches only after the scan, all its items
\* and the processed flag have been written; when that step fails, no row of
\* the scan, its items or the document is undone and the response is not 201.
C8_StatsAfterIngestion ==
  [][\A r \in Reqs :
       /\ (IsAnalysis(r) /\ Stepped(r) /\ (users' # users \/ pc[r] \in StatsPcs))
          => (pc[r] \in StatsPcs /\ Persisted(r))
       /\ (pc[r] \in StatsPcs /\ Stepped(r) /\ loc'[r].raised)
          => /\ loc'[r].resp # 201
             /\ UNCHANGED <<users, docs, scans, infos>>
             /\ Persisted(r)']_vars

\* the counter update of a Protocol-B request and that of a Protocol-A
\* request have both failed after their ingestion
C8_Witness ==
  \E r, q \in Reqs :
    /\ pc[r] = "done" /\ loc[r].failed_at = "ml_stats" /\ Len(SuppliedItems(r)) = 2
    /\ pc[q] = "done" /\ loc[q].failed_at = "be_stats"

\* C9: without a reset, no step lowers a stored counter of the user or
\* leaves one negative.  Stated as the claim; a service save writes the
\* value of a copy loaded earlier over a store that has moved on.
C9_CountersNeverDecrease ==
  [][(\A r \in Reqs : req'[r].kind = "call" => req'[r].call.op # "reset_user_stats")
     => \A c \in Counters :
          /\ users'[Caller][c] >= users[Caller][c]
          /\ users'[Caller][c] >= 0]_vars

\* C10: when all requests are finished updates of one document, the
\* documents-processed counter equals the number of false-to-true
\* transitions of that document's stored flag.  Stated as the claim; an
\* update increments a copy of the user loaded before an earlier update's
\* increment and writes it back.
C10_OnceIncrementPerTransition ==
  \A d \in DocIds :
    (/\ Begun # {}
     /\ \A r \in Begun :
          req[r].kind = "update" /\ req[r].pk = d /\ pc[r] = "done" /\ ~loc[r].raised)
    => users[Caller]["total_documents_processed"] = flips[d]

\* the call hands a negative count to the service
NegativeArgument(call) ==
  \/ /\ call.op \in {"increment_sensitive_items_detected", "increment_non_detected_items"}
     /\ call.count < 0
  \/ /\ call.op = "update_stats_after_analysis"
     /\ (call.count < 0 \/ call.other < 0)

\* C11: a call of increment_sensitive_items_detected or
\* increment_non_detected_items with a negative count, or of
\* update_stats_after_analysis with a negative argument, raises to its
\* caller and changes no counter, neither of the caller's user object nor
\* of the store.
C11_NegativeCountRejected ==
  [][\A r \in Reqs :
       (pc[r] = "call" /\ pc'[r] = "done" /\ NegativeArgument(req[r].call))
       => /\ loc'[r].raised
          /\ loc'[r].user = loc[r].user
          /\ users' = users]_vars

\* update_stats_after_analysis(user, MaxDelta, -1) has raised in a behaviour
\* without storage failure
C11_Witness ==
  \E r \in Reqs :
    /\ pc[r] = "done"
    /\ req[r].kind = "call"
    /\ req[r].call.op = "update_stats_after_analysis"
    /\ req[r].call.count = MaxDelta /\ req[r].call.other = -1
    /\ loc[r].raised
    /\ faults = 0

\* C12: when reset_user_stats returns without raising, all five stored
\* counters of the user are 0.
C12_ResetZeroesAll ==
  [][\A r \in Reqs :
       (/\ pc[r] = "call" /\ pc'[r] = "done"
        /\ req[r].call.op = "reset_user_stats"
        /\ ~loc'[r].raised)
       => \A c \in Counters : users'[Caller][c] = 0]_vars

\* a reset has returned on a user whose stored documents-saved counter was
\* 1: the only other call, an increment of it, had written before the
\* resetting caller loaded the user
C12_Witness ==
  \E r, q \in Reqs :
    /\ Begun = {r, q} /\ r # q
    /\ req[r].kind = "call" /\ req[r].call.op = "reset_user_stats"
    /\ pc[r] = "done" /\ ~loc[r].raised /\ ~loc[r].early
    /\ req[q].kind = "call" /\ req[q].call.op = "increment_documents_saved"
    /\ pc[q] = "done" /\ ~loc[q].raised
    /\ \A c \in Counters : users[Caller][c] = 0

\* the Document rows created since Init
CreatedDocs == {d \in DocIds : Exists(d) /\ d \notin {1, 2}}

\* C13: when all requests are creates that have succeeded, the
\* documents-saved counter equals the number of documents created and every
\* other counter is unchanged.  Stated as the claim; concurrent creates each
\* add 1 to a copy of the user loaded before the other's save and write the
\* same value.
C13_SavedCountsCreates ==
  (/\ Begun # {}
   /\ \A r \in Begun : req[r].kind = "create" /\ pc[r] = "done" /\ ~loc[r].raised)
  => /\ users[Caller]["total_documents_saved"] = Cardinality(CreatedDocs)
     /\ \A c \in Counters \ {"total_documents_saved"} : users[Caller][c] = 0

\* the columns the claim gives the row of a supplied item
DefaultedRow(item) ==
  [type |-> Get(item, "type", "other"), confidence |-> Get(item, "confidence", 0),
   count |-> Get(item, "count", 1), redacted |-> FALSE]

\* the columns of the stored row k the claim speaks of
StoredRow(k) ==
  [type |-> infos[k].type, confidence |-> infos[k].confidence,
   count |-> infos[k].count, redacted |-> infos[k].redacted]

\* C14: a Protocol-B request that carries every field of the payload and
\* ends without an exception is accepted, and every item it supplied is
\* stored with a missing type as 'other', a missing confidence as 0.0, a
\* missing count as 1 and redacted false.  Stated as the claim; the item
\* serializer requires type and confidence, so such a request ends in 400.
C14_ItemsDefaulted ==
  \A r \in Reqs :
    (/\ req[r].kind = "ml"
     /\ pc[r] = "done"
     /\ loc[r].failed_at = ""
     /\ {"document_id", "detection_types", "sensitive_items_count", "processing_time",
         "source"} \subseteq DOMAIN req[r].data)
    => /\ loc[r].resp = 201
       /\ Cardinality(ItemsOf(loc[r].scan)) = Len(SuppliedItems(r))
       /\ \A i \in 1..Len(SuppliedItems(r)) :
            \E k \in ItemsOf(loc[r].scan) : StoredRow(k) = DefaultedRow(SuppliedItems(r)[i])

\* the document an analysis request names, 0 when it names none
DocumentOf(request) == Get(request.data, "document_id", 0)

C16_OnlyTransitionCounts ==
  [][\A r \in Reqs :
       (req[r].kind = "update" /\ Stepped(r) /\ ~loc'[r].flipped)
       => users' = users]_vars

\* the counter increment a request performs when it succeeds, counter ""
\* when it performs none or more than one
IncrementBy(r) ==
  CASE req[r].kind = "call" -> IncrementOf(req[r].call)
    [] req[r].kind = "create" -> [counter |-> "total_documents_saved", d |-> 1]
    [] req[r].kind = "update" ->
         IF ProcessedBranch(loc[r].old_processed, req[r].processed) = "update_stats"
         THEN [counter |-> "total_documents_processed", d |-> 1]
         ELSE [counter |-> "", d |-> 0]
    [] req[r].kind = "ml" ->
         LET upd == MLStatsUpdate(req[r].data.sensitive_items_count)
         IN [counter |-> upd.field, d |-> upd.by]
    [] req[r].kind = "backend" ->
         LET upd == BackendStatsUpdate(Cardinality(ItemsOf(loc[r].scan)))
         IN [counter |-> upd.field, d |-> upd.by]
    [] OTHER -> [counter |-> "", d |-> 0]

\* the request has finished with success
Succeeded(r) ==
  /\ pc[r] = "done"
  /\ ~loc[r].raised
  /\ req[r].kind = "call" \/ loc[r].resp \in {200, 201}

\* C17: when two or more requests of the user have all succeeded, each
\* having incremented one counter and no two of them the same, every counter
\* holds in the store the increment of the request that named it and every
\* other counter is untouched, however the requests interleaved.
C17_DifferentCountersIndependent ==
  (/\ Cardinality(Begun) >= 2
   /\ \A r \in Begun : Succeeded(r) /\ IncrementBy(r).counter \in Counters
   /\ \A r, q \in Begun : r # q => IncrementBy(r).counter # IncrementBy(q).counter)
  => \A c \in Counters :
       \/ \E r \in Begun : IncrementBy(r) = [counter |-> c, d |-> users[Caller][c]]
       \/ users[Caller][c] = 0 /\ \A r \in Begun : IncrementBy(r).counter # c

\* a create and a Protocol-A analysis that found two items have both
\* succeeded, each on a copy of the user loaded before the other's write
C17_Witness ==
  \E r, q \in Reqs :
    /\ req[r].kind = "create" /\ Succeeded(r)
    /\ req[q].kind = "backend" /\ Succeeded(q) /\ Len(SuppliedItems(q)) = 2
    /\ loc[r].user["total_sensitive_items_detected"] = 0
    /\ loc[q].user["total_documents_saved"] = 0
    /\ users[Caller]["total_documents_saved"] = 1
    /\ users[Caller]["total_sensitive_items_detected"] = 2

\* ------------------------------------------------------- specifications

NextStats == \E r \in Reqs : BeginCall(r, MaxCalls) \/ Call(r)

SpecStats == Init /\ [][NextStats]_vars

NextDocs ==
  \E r \in Reqs :
    \/ BeginCreate(r, MaxDocReqs)
    \/ CreateSave(r)
    \/ CreateStats(r)
    \/ BeginUpdate(r, MaxDocReqs)
    \/ UpdateGet(r)
    \/ UpdateSave(r)
    \/ UpdateStats(r)

SpecDocs == Init /\ [][NextDocs]_vars

Analyze(r) ==
  \/ MLCreateScan(r)
  \/ MLCreateItem(r)
  \/ MLMarkProcessed(r)
  \/ MLStats(r)
  \/ BackendCreateScan(r)
  \/ BackendCreateItem(r)
  \/ BackendMarkProcessed(r)
  \/ BackendStats(r)

NextIngest ==
  \E r \in Reqs :
    \/ BeginMLAnalysis(r, MaxAnalyses, CoreMLPayloads)
    \/ BeginBackendAnalysis(r, MaxAnalyses, CoreBackendPayloads, CoreLevels, CoreItemSeqs)
    \/ Analyze(r)

SpecIngest == Init /\ [][NextIngest]_vars

\* document requests and analysis requests together
NextMixed ==
  \E r \in Reqs :
    \/ BeginCreate(r, MaxReqs)
    \/ CreateSave(r)
    \/ CreateStats(r)
    \/ BeginUpdate(r, MaxReqs)
    \/ UpdateGet(r)
    \/ UpdateSave(r)
    \/ UpdateStats(r)
    \/ BeginMLAnalysis(r, MaxReqs, CoreMLPayloads)
    \/ BeginBackendAnalysis(r, MaxReqs, CoreBackendPayloads, CoreLevels, CoreItemSeqs)
    \/ Analyze(r)

SpecMixed == Init /\ [][NextMixed]_vars

Next ==
  \E r \in Reqs :
    \/ BeginCall(r, MaxReqs)
    \/ Call(r)
    \/ BeginCreate(r, MaxReqs)
    \/ CreateSave(r)
    \/ CreateStats(r)
    \/ BeginUpdate(r, MaxReqs)
    \/ UpdateGet(r)
    \/ UpdateSave(r)
    \/ UpdateStats(r)
    \/ BeginMLAnalysis(r, MaxReqs, MLPayloads \cup BackendPayloads)
    \/ BeginBackendAnalysis(r, MaxReqs, MLPayloads \cup BackendPayloads, Levels, ItemSeqs)
    \/ Analyze(r)

Spec == Init /\ [][Next]_vars

====
